---------------------------- MODULE Spec2Model ----------------------------
(***************************************************************************)
(* Model of src/interface.py: the Interface client of the SUXESs lab       *)
(* microcontroller (Particle cloud relay) and the Menu console driving it. *)
(*                                                                         *)
(* Python strings are sequences of atoms.  An atom is one character of the *)
(* string (",", ":", a decimal digit) or a whole word without separators   *)
(* and digits ("power", "arm", ...), so that str.split, int() and float()  *)
(* act on the atoms exactly as they act on the characters.                 *)
(*                                                                         *)
(* Assertions are enabled (the interpreter is not run with -O).            *)
(***************************************************************************)
EXTENDS Integers, Sequences, FiniteSets, TLC

VARIABLES
    pc,      \* where the process is: "library" (module imported, no console),
             \* "menu" (line 152), "alarm" (line 176), "threshold" (line 198),
             \* "done" (KeyboardInterrupt caught, line 138), "crashed" (uncaught exception)
    op,      \* the operation last invoked and its inputs
    resp,    \* the relay's answer consumed by the last operation
    calls,   \* invocations of Interface.__call__ by the console in the current pass
    sent,    \* transport requests issued by the last operation / current pass
    parsed,  \* arguments handed to parse_status by the last operation / current pass
    screen,  \* lines printed by the last operation / current pass
    out,     \* how the last operation ended: a returned value or a raised exception
    device   \* the pressure alarm threshold the device holds

vars == <<pc, op, resp, calls, sent, parsed, screen, out, device>>

---------------------------------------------------------------------------
(* Python values *)

PyNone == [type |-> "NoneType", n |-> 0, s |-> <<>>, d |-> <<>>]

PyInt(i) == [type |-> "int", n |-> i, s |-> <<>>, d |-> <<>>]

PyFloat(i) == [type |-> "float", n |-> i, s |-> <<>>, d |-> <<>>]

PyBool(b) == [type |-> "bool", n |-> IF b THEN 1 ELSE 0, s |-> <<>>, d |-> <<>>]

PyStr(str) == [type |-> "str", n |-> 0, s |-> str, d |-> <<>>]

\* an OrderedDict: its items in insertion order
PyDict(items) == [type |-> "OrderedDict", n |-> 0, s |-> <<>>, d |-> items]

IsNumber(v) == v.type \in {"int", "float", "bool"}

\* Python ==: numbers compare by value across int, float and bool
PyEq(a, b) ==
    IF IsNumber(a) /\ IsNumber(b) THEN a.n = b.n
    ELSE a.type = b.type /\ a.s = b.s /\ a.d = b.d

\* Python truth value, as `if v` takes it
Truthy(v) ==
    CASE IsNumber(v) -> v.n # 0
      [] v.type = "str" -> v.s # <<>>
      [] v.type = "OrderedDict" -> v.d # <<>>
      [] OTHER -> FALSE

Digits == {"0", "1", "2", "3", "4", "5", "6", "7", "8", "9"}

DigitVal(c) ==
    CASE c = "0" -> 0 [] c = "1" -> 1 [] c = "2" -> 2 [] c = "3" -> 3
      [] c = "4" -> 4 [] c = "5" -> 5 [] c = "6" -> 6 [] c = "7" -> 7
      [] c = "8" -> 8 [] c = "9" -> 9

\* the strings int() and float() accept, among strings of the atoms above
IsDigits(str) == Len(str) > 0 /\ \A i \in 1..Len(str) : str[i] \in Digits

RECURSIVE Dec(_)
Dec(str) ==
    IF str = <<>> THEN 0
    ELSE 10 * Dec(SubSeq(str, 1, Len(str) - 1)) + DigitVal(str[Len(str)])

\* str.split(sep) for a one-character separator
RECURSIVE Split(_, _)
Split(str, sep) ==
    IF \A i \in 1..Len(str) : str[i] # sep THEN <<str>>
    ELSE LET i == CHOOSE j \in 1..Len(str) :
                      str[j] = sep /\ \A m \in 1..(j - 1) : str[m] # sep
         IN  <<SubSeq(str, 1, i - 1)>> \o Split(SubSeq(str, i + 1, Len(str)), sep)

Range(f) == {f[i] : i \in DOMAIN f}

---------------------------------------------------------------------------
(* How an operation ends, and what it did on the way *)

Return(v) == [kind |-> "return", val |-> v, exc |-> ""]

Raise(e) == [kind |-> "raise", val |-> PyNone, exc |-> e]

NoOutcome == [kind |-> "none", val |-> PyNone, exc |-> ""]

Line(msg, v, style) == [msg |-> msg, v |-> v, style |-> style]

Request(method, name, argument) == [method |-> method, name |-> name, arg |-> argument]

\* the effect of one call: requests issued, decoder invocations, lines printed, outcome
Effect(s, p, l, o) == [sent |-> s, parsed |-> p, printed |-> l, out |-> o]

(* The relay's answer to one request: a JSON object with or without the     *)
(* expected field (`result` for GET, `return_value` for POST), or an        *)
(* exception raised by the transport (requests.exceptions.ConnectionError). *)
JsonWith(v) == [kind |-> "json", has |-> TRUE, val |-> v]

JsonWithout == [kind |-> "json", has |-> FALSE, val |-> PyNone]

TransportFailure == [kind |-> "error", has |-> FALSE, val |-> PyNone]

NoResponse == [kind |-> "none", has |-> FALSE, val |-> PyNone]

---------------------------------------------------------------------------
(* Interface *)

exposed_variables == << <<"power">>, <<"upspower">>, <<"pressure">>, <<"status">> >>

exposed_functions ==
    ( <<"alarm">> :> << <<"arm">>, <<"disarm">> >> ) @@
    ( <<"led">> :> << <<"on">>, <<"off">> >> ) @@
    ( <<"threshold">> :> << <<"2", "4", "0", "0">>, <<"2", "5", "0", "0">>,
                            <<"2", "6", "0", "0">>, <<"2", "7", "0", "0">>,
                            <<"2", "8", "0", "0">> >> ) @@
    ( <<"test">> :> << <<>> >> )

TimeoutLine == Line("Error: no result from API, possible timeout, try again.", PyNone, "")

\* get_variable without the assertion of line 60
get_variable_unchecked(variable, r) ==
    LET req == Request("GET", variable, PyNone)
    IN  IF r.kind = "error"
        THEN Effect(<<req>>, <<>>, <<>>, Raise("ConnectionError"))
        ELSE IF ~r.has
        THEN Effect(<<req>>, <<>>, <<TimeoutLine>>, Return(PyInt(-1)))
        ELSE Effect(<<req>>, <<>>, <<>>, Return(r.val))

\* get_variable asking the relay once more when `result` is missing
get_variable_asks_again(variable, r) ==
    IF variable \notin Range(exposed_variables)
    THEN Effect(<<>>, <<>>, <<>>, Raise("AssertionError"))
    ELSE LET req == Request("GET", variable, PyNone)
         IN  IF r.kind = "error"
             THEN Effect(<<req>>, <<>>, <<>>, Raise("ConnectionError"))
             ELSE IF ~r.has
             THEN Effect(<<req, req>>, <<>>, <<TimeoutLine>>, Return(PyInt(-1)))
             ELSE Effect(<<req>>, <<>>, <<>>, Return(r.val))

get_variable(variable, r) ==
    IF variable \notin Range(exposed_variables)
    THEN Effect(<<>>, <<>>, <<>>, Raise("AssertionError"))
    ELSE LET req == Request("GET", variable, PyNone)
         IN  IF r.kind = "error"
             THEN Effect(<<req>>, <<>>, <<>>, Raise("ConnectionError"))
             ELSE IF ~r.has
             THEN Effect(<<req>>, <<>>, <<TimeoutLine>>, Return(PyInt(-1)))
             ELSE Effect(<<req>>, <<>>, <<>>, Return(r.val))

\* call_function without the assertion of line 75
call_function_any_argument(function, argument, r) ==
    IF argument.type # "str"
    THEN Effect(<<>>, <<>>, <<>>, Raise("AssertionError"))
    ELSE IF function \notin DOMAIN exposed_functions
    THEN Effect(<<>>, <<>>, <<>>, Raise("AssertionError"))
    ELSE LET req == Request("POST", function, argument)
         IN  IF r.kind = "error"
             THEN Effect(<<req>>, <<>>, <<>>, Raise("ConnectionError"))
             ELSE IF ~r.has
             THEN Effect(<<req>>, <<>>, <<TimeoutLine>>, Return(PyInt(-1)))
             ELSE Effect(<<req>>, <<>>, <<>>, Return(r.val))

call_function(function, argument, r) ==
    IF argument.type # "str"
    THEN Effect(<<>>, <<>>, <<>>, Raise("AssertionError"))
    ELSE IF function \notin DOMAIN exposed_functions
    THEN Effect(<<>>, <<>>, <<>>, Raise("AssertionError"))
    ELSE IF argument.s \notin Range(exposed_functions[function])
    THEN Effect(<<>>, <<>>, <<>>, Raise("AssertionError"))
    ELSE LET req == Request("POST", function, argument)
         IN  IF r.kind = "error"
             THEN Effect(<<req>>, <<>>, <<>>, Raise("ConnectionError"))
             ELSE IF ~r.has
             THEN Effect(<<req>>, <<>>, <<TimeoutLine>>, Return(PyInt(-1)))
             ELSE Effect(<<req>>, <<>>, <<>>, Return(r.val))

BoolKeys == { <<"power">>, <<"ups">>, <<"armed">> }

\* d[k] = v on an OrderedDict: a new key is appended, a known key keeps its place
DictSet(d, k, v) ==
    IF \E i \in 1..Len(d) : d[i].k = k
    THEN [i \in 1..Len(d) |-> IF d[i].k = k THEN [k |-> k, v |-> v] ELSE d[i]]
    ELSE Append(d, [k |-> k, v |-> v])

\* the loop of lines 89-94 with bool(v) for bool(int(v)) at line 92
RECURSIVE ParsePairsBoolOfString(_, _)
ParsePairsBoolOfString(pairs, d) ==
    IF pairs = <<>> THEN Return(PyDict(d))
    ELSE LET parts == Split(Head(pairs), ":")
         IN  IF Len(parts) # 2 THEN Raise("ValueError")
             ELSE LET k == parts[1]
                      v == parts[2]
                  IN  IF ~IsDigits(v) THEN Raise("ValueError")
                      ELSE ParsePairsBoolOfString(Tail(pairs),
                                      DictSet(d, k, IF k \in BoolKeys
                                                    THEN PyBool(Truthy(PyStr(v)))
                                                    ELSE PyFloat(Dec(v))))

\* the loop of lines 89-94 over the remaining pairs, d being the dict so far
RECURSIVE ParsePairs(_, _)
ParsePairs(pairs, d) ==
    IF pairs = <<>> THEN Return(PyDict(d))
    ELSE LET parts == Split(Head(pairs), ":")
         IN  IF Len(parts) # 2 THEN Raise("ValueError")
             ELSE LET k == parts[1]
                      v == parts[2]
                  IN  IF ~IsDigits(v) THEN Raise("ValueError")
                      ELSE ParsePairs(Tail(pairs),
                                      DictSet(d, k, IF k \in BoolKeys
                                                    THEN PyBool(Dec(v) # 0)
                                                    ELSE PyFloat(Dec(v))))

\* `status is not -1`: CPython keeps one object for each small int, -1 included
parse_status(status) ==
    IF status.type = "int" /\ status.n = -1 THEN Raise("AssertionError")
    ELSE IF status.type # "str" THEN Raise("AttributeError")
    ELSE ParsePairs(Split(status.s, ","), <<>>)

\* Interface.__call__ with `if not argument` for `if argument is None` at line 46
Interface_call_if_not_argument(name, argument, r) ==
    IF ~Truthy(argument)
    THEN LET g == get_variable(name, r)
         IN  IF name = <<"status">>
             THEN IF g.out.kind = "return"
                  THEN Effect(g.sent, <<g.out.val>>, g.printed, parse_status(g.out.val))
                  ELSE g
             ELSE g
    ELSE call_function(name, argument, r)

\* Interface.__call__(name, argument=None)
Interface_call(name, argument, r) ==
    IF argument = PyNone
    THEN LET g == get_variable(name, r)
         IN  IF name = <<"status">>
             THEN IF g.out.kind = "return"
                  THEN Effect(g.sent, <<g.out.val>>, g.printed, parse_status(g.out.val))
                  ELSE g
             ELSE g
    ELSE call_function(name, argument, r)

---------------------------------------------------------------------------
(* Menu *)

menu_choices == << <<"power">>, <<"upspower">>, <<"pressure">>,
                   <<"status">>, <<"alarm">>, <<"threshold">> >>

messages ==
    ( <<"power">> :> [message |-> "External power is %s.", ok |-> <<"OK">>, fail |-> <<"DOWN">>] ) @@
    ( <<"upspower">> :> [message |-> "UPS power is %s.", ok |-> <<"OK">>, fail |-> <<"DOWN">>] ) @@
    ( <<"ups">> :> [message |-> "UPS power is %s.", ok |-> <<"OK">>, fail |-> <<"DOWN">>] ) @@
    ( <<"armed">> :> [message |-> "Alarms are %s.", ok |-> <<"enabled">>, fail |-> <<"disabled">>] ) @@
    ( <<"pressure">> :> [message |-> "Pressure is %.2f mbar.", ok |-> <<>>, fail |-> <<>>] ) @@
    ( <<"pthresh">> :> [message |-> "Pressure threshold is %.0f mbar.", ok |-> <<>>, fail |-> <<>>] )

\* the display threshold of line 144
PressureWarn == 2501

\* what string_print does: the line it prints, or the exception it raises
Printed(ls) == [printed |-> ls, exc |-> ""]

PrintRaise(ls, e) == [printed |-> ls, exc |-> e]

\* string_print classifying against the alarm threshold the device holds
string_print_device_threshold(k, v) ==
    IF k \notin DOMAIN messages THEN PrintRaise(<<>>, "KeyError")
    ELSE LET m == messages[k]
         IN  IF k \in { <<"pressure">>, <<"pthresh">> }
             THEN IF ~IsNumber(v) THEN PrintRaise(<<>>, "TypeError")
                  ELSE Printed(<<Line(m.message, v,
                                      IF v.n <= device THEN "ok" ELSE "warn")>>)
             ELSE IF Truthy(v)
                  THEN Printed(<<Line(m.message, PyStr(m.ok), "ok")>>)
                  ELSE Printed(<<Line(m.message, PyStr(m.fail), "fail")>>)

string_print(k, v) ==
    IF k \notin DOMAIN messages THEN PrintRaise(<<>>, "KeyError")
    ELSE LET m == messages[k]
         IN  IF k \in { <<"pressure">>, <<"pthresh">> }
             THEN IF ~IsNumber(v) THEN PrintRaise(<<>>, "TypeError")
                  ELSE Printed(<<Line(m.message, v,
                                      IF v.n < PressureWarn THEN "ok" ELSE "warn")>>)
             ELSE IF Truthy(v)
                  THEN Printed(<<Line(m.message, PyStr(m.ok), "ok")>>)
                  ELSE Printed(<<Line(m.message, PyStr(m.fail), "fail")>>)

\* the loop of lines 161-162 over the remaining items, ls being the lines so far
RECURSIVE PrintItems(_, _)
PrintItems(items, ls) ==
    IF items = <<>> THEN Printed(ls)
    ELSE LET p == string_print(Head(items).k, Head(items).v)
         IN  IF p.exc # "" THEN PrintRaise(ls, p.exc)
             ELSE PrintItems(Tail(items), ls \o p.printed)

\* str(i) and int(s) for the ordinals of a menu
RECURSIVE Str(_)
Str(i) ==
    LET c == CHOOSE x \in Digits : DigitVal(x) = i % 10
    IN  IF i < 10 THEN <<c>> ELSE Str(i \div 10) \o <<c>>

(* One pass of the console from an input point to the next: where the       *)
(* process goes, the Interface invocations made, and their effect.  An      *)
(* exception other than KeyboardInterrupt leaves Menu.run (lines 133-138)   *)
(* and ends the process; KeyboardInterrupt prints "Done".                   *)
Pass(p, c, e) == [pc |-> p, calls |-> c, eff |-> e]

Invocation(name, argument) == [name |-> name, arg |-> argument]

Quiet(ls) == Effect(<<>>, <<>>, ls, Return(PyNone))

\* Menu.menu calling self.interface(var_name) twice at line 157: to test, then to print
menu_asks_twice(choice, r) ==
    IF choice \in { <<"0">>, <<"1">>, <<"2">> }
    THEN LET var_name == menu_choices[Dec(choice) + 1]
             e == Interface_call(var_name, PyNone, r)
             head == <<Line("Requesting %s values..", PyStr(var_name), "")>>
         IN  IF e.out.kind = "raise"
             THEN Pass("crashed", <<Invocation(var_name, PyNone)>>,
                       Effect(e.sent, e.parsed, head \o e.printed, e.out))
             ELSE LET p == string_print(var_name, e.out.val)
                  IN  Pass(IF p.exc # "" THEN "crashed" ELSE "menu",
                           <<Invocation(var_name, PyNone), Invocation(var_name, PyNone)>>,
                           Effect(e.sent \o e.sent, e.parsed,
                                  head \o e.printed \o e.printed \o p.printed,
                                  IF p.exc # "" THEN Raise(p.exc) ELSE Return(PyNone)))
    ELSE IF choice = <<"3">>
    THEN LET e == Interface_call(<<"status">>, PyNone, r)
             head == <<Line("Requesting values..", PyNone, "")>>
         IN  IF e.out.kind = "raise"
             THEN Pass("crashed", <<Invocation(<<"status">>, PyNone)>>,
                       Effect(e.sent, e.parsed, head \o e.printed, e.out))
             ELSE LET p == PrintItems(e.out.val.d, <<>>)
                  IN  Pass(IF p.exc # "" THEN "crashed" ELSE "menu",
                           <<Invocation(<<"status">>, PyNone)>>,
                           Effect(e.sent, e.parsed, head \o e.printed \o p.printed,
                                  IF p.exc # "" THEN Raise(p.exc) ELSE Return(PyNone)))
    ELSE IF choice = <<"4">> THEN Pass("alarm", <<>>, Quiet(<<>>))
    ELSE IF choice = <<"5">> THEN Pass("threshold", <<>>, Quiet(<<>>))
    ELSE IF choice = <<"6">>
    THEN Pass("done", <<>>,
              Effect(<<>>, <<>>, <<Line("Done", PyNone, "")>>, Raise("KeyboardInterrupt")))
    ELSE Pass("menu", <<>>, Quiet(<<Line("Wrong option, try again.", PyNone, "fail")>>))

menu(choice, r) ==
    IF choice \in { <<"0">>, <<"1">>, <<"2">> }
    THEN LET var_name == menu_choices[Dec(choice) + 1]
             e == Interface_call(var_name, PyNone, r)
             head == <<Line("Requesting %s values..", PyStr(var_name), "")>>
         IN  IF e.out.kind = "raise"
             THEN Pass("crashed", <<Invocation(var_name, PyNone)>>,
                       Effect(e.sent, e.parsed, head \o e.printed, e.out))
             ELSE LET p == string_print(var_name, e.out.val)
                  IN  Pass(IF p.exc # "" THEN "crashed" ELSE "menu",
                           <<Invocation(var_name, PyNone)>>,
                           Effect(e.sent, e.parsed, head \o e.printed \o p.printed,
                                  IF p.exc # "" THEN Raise(p.exc) ELSE Return(PyNone)))
    ELSE IF choice = <<"3">>
    THEN LET e == Interface_call(<<"status">>, PyNone, r)
             head == <<Line("Requesting values..", PyNone, "")>>
         IN  IF e.out.kind = "raise"
             THEN Pass("crashed", <<Invocation(<<"status">>, PyNone)>>,
                       Effect(e.sent, e.parsed, head \o e.printed, e.out))
             ELSE LET p == PrintItems(e.out.val.d, <<>>)
                  IN  Pass(IF p.exc # "" THEN "crashed" ELSE "menu",
                           <<Invocation(<<"status">>, PyNone)>>,
                           Effect(e.sent, e.parsed, head \o e.printed \o p.printed,
                                  IF p.exc # "" THEN Raise(p.exc) ELSE Return(PyNone)))
    ELSE IF choice = <<"4">> THEN Pass("alarm", <<>>, Quiet(<<>>))
    ELSE IF choice = <<"5">> THEN Pass("threshold", <<>>, Quiet(<<>>))
    ELSE IF choice = <<"6">>
    THEN Pass("done", <<>>,
              Effect(<<>>, <<>>, <<Line("Done", PyNone, "")>>, Raise("KeyboardInterrupt")))
    ELSE Pass("menu", <<>>, Quiet(<<Line("Wrong option, try again.", PyNone, "fail")>>))

\* _alarm_submenu with the test of line 179 pasted at line 185
alarm_submenu_same_test(alarm, r) ==
    IF alarm \in { <<"0">>, <<"1">> }
    THEN LET argument == IF alarm = <<"0">> THEN PyStr(<<"disarm">>) ELSE PyStr(<<"arm">>)
             good == IF alarm = <<"0">> THEN "Alarm disabled" ELSE "Alarm enabled."
             e == Interface_call(<<"alarm">>, argument, r)
         IN  IF e.out.kind = "raise"
             THEN Pass("crashed", <<Invocation(<<"alarm">>, argument)>>, e)
             ELSE Pass("menu", <<Invocation(<<"alarm">>, argument)>>,
                       Effect(e.sent, e.parsed,
                              e.printed \o
                                  IF PyEq(e.out.val, PyInt(0))
                                  THEN <<Line(good, PyNone, "ok")>>
                                  ELSE <<Line("Try again (wrong return value).", PyNone, "fail")>>,
                              Return(PyNone)))
    ELSE Pass("menu", <<>>, Quiet(<<Line("Wrong option: ", PyStr(alarm), "fail")>>))

\* _alarm_submenu with a plain `else` for `elif alarm == '1'` at line 183
alarm_submenu_else_arms(alarm, r) ==
    LET argument == IF alarm = <<"0">> THEN PyStr(<<"disarm">>) ELSE PyStr(<<"arm">>)
        expected == IF alarm = <<"0">> THEN PyInt(0) ELSE PyInt(1)
        good == IF alarm = <<"0">> THEN "Alarm disabled" ELSE "Alarm enabled."
        e == Interface_call(<<"alarm">>, argument, r)
    IN  IF e.out.kind = "raise"
        THEN Pass("crashed", <<Invocation(<<"alarm">>, argument)>>, e)
        ELSE Pass("menu", <<Invocation(<<"alarm">>, argument)>>,
                  Effect(e.sent, e.parsed,
                         e.printed \o
                             IF PyEq(e.out.val, expected)
                             THEN <<Line(good, PyNone, "ok")>>
                             ELSE <<Line("Try again (wrong return value).", PyNone, "fail")>>,
                         Return(PyNone)))

alarm_submenu(alarm, r) ==
    IF alarm \in { <<"0">>, <<"1">> }
    THEN LET argument == IF alarm = <<"0">> THEN PyStr(<<"disarm">>) ELSE PyStr(<<"arm">>)
             expected == IF alarm = <<"0">> THEN PyInt(0) ELSE PyInt(1)
             good == IF alarm = <<"0">> THEN "Alarm disabled" ELSE "Alarm enabled."
             e == Interface_call(<<"alarm">>, argument, r)
         IN  IF e.out.kind = "raise"
             THEN Pass("crashed", <<Invocation(<<"alarm">>, argument)>>, e)
             ELSE Pass("menu", <<Invocation(<<"alarm">>, argument)>>,
                       Effect(e.sent, e.parsed,
                              e.printed \o
                                  IF PyEq(e.out.val, expected)
                                  THEN <<Line(good, PyNone, "ok")>>
                                  ELSE <<Line("Try again (wrong return value).", PyNone, "fail")>>,
                              Return(PyNone)))
    ELSE Pass("menu", <<>>, Quiet(<<Line("Wrong option: ", PyStr(alarm), "fail")>>))

\* _threshold_submenu with `res == new_pressure` for `res == int(new_pressure)` at line 204
threshold_submenu_compares_string(new_threshold, r) ==
    LET options == exposed_functions[<<"threshold">>]
    IN  IF new_threshold \in {Str(i) : i \in 0..(Len(options) - 1)}
        THEN LET new_pressure == options[Dec(new_threshold) + 1]
                 argument == PyStr(new_pressure)
                 e == Interface_call(<<"threshold">>, argument, r)
                 c == <<Invocation(<<"threshold">>, argument)>>
             IN  IF e.out.kind = "raise" THEN Pass("crashed", c, e)
                 ELSE IF ~IsNumber(e.out.val)
                 THEN Pass("crashed", c, Effect(e.sent, e.parsed, e.printed, Raise("TypeError")))
                 ELSE Pass("menu", c,
                           Effect(e.sent, e.parsed,
                                  e.printed \o
                                      IF PyEq(e.out.val, PyStr(new_pressure))
                                      THEN <<Line("Pressure alarm threshold set to %d mbar.",
                                                  e.out.val, "ok")>>
                                      ELSE <<Line("Pressure alarm threshold set to %d mbar. Threshold NOT changed, please try again.",
                                                  e.out.val, "warn")>>,
                                  Return(PyNone)))
        ELSE Pass("menu", <<>>, Quiet(<<Line("Wrong option, try again.", PyNone, "fail")>>))

threshold_submenu(new_threshold, r) ==
    LET options == exposed_functions[<<"threshold">>]
    IN  IF new_threshold \in {Str(i) : i \in 0..(Len(options) - 1)}
        THEN LET new_pressure == options[Dec(new_threshold) + 1]
                 argument == PyStr(new_pressure)
                 e == Interface_call(<<"threshold">>, argument, r)
                 c == <<Invocation(<<"threshold">>, argument)>>
             IN  IF e.out.kind = "raise" THEN Pass("crashed", c, e)
                 ELSE IF ~IsNumber(e.out.val)
                 THEN Pass("crashed", c, Effect(e.sent, e.parsed, e.printed, Raise("TypeError")))
                 ELSE Pass("menu", c,
                           Effect(e.sent, e.parsed,
                                  e.printed \o
                                      IF PyEq(e.out.val, PyInt(Dec(new_pressure)))
                                      THEN <<Line("Pressure alarm threshold set to %d mbar.",
                                                  e.out.val, "ok")>>
                                      ELSE <<Line("Pressure alarm threshold set to %d mbar. Threshold NOT changed, please try again.",
                                                  e.out.val, "warn")>>,
                                  Return(PyNone)))
        ELSE Pass("menu", <<>>, Quiet(<<Line("Wrong option, try again.", PyNone, "fail")>>))

---------------------------------------------------------------------------
(* Inputs: what callers pass, what the operator types, what the relay answers *)

Tok(k, v) == k \o <<":">> \o v

Comma(a, b) == a \o <<",">> \o b

\* status strings the relay may hand back: regular, malformed, with a field the
\* console has no message for, with a repeated field, with an empty key, empty
RelayStatusStrings ==
    { Comma(Tok(<<"power">>, <<"1">>),
        Comma(Tok(<<"ups">>, <<"0">>),
          Comma(Tok(<<"armed">>, <<"1">>),
            Comma(Tok(<<"pressure">>, <<"9", "9", "8">>),
                  Tok(<<"pthresh">>, <<"2", "5", "0", "0">>))))),
      Comma(Tok(<<"pressure">>, <<"2", "6", "0", "0">>), Tok(<<"power">>, <<"0">>)),
      Comma(Tok(<<"power">>, <<"1">>), <<"ups">>),
      Comma(Tok(<<"power">>, <<"1">>), Tok(<<"temp">>, <<"2", "0">>)),
      Comma(Tok(<<"pthresh">>, <<"1">>),
        Comma(Tok(<<"power">>, <<"1">>), Tok(<<"power">>, <<"0">>))),
      Tok(<<>>, <<"1">>),
      <<>> }

\* a Particle variable is a bool, an int, a double or a string
ResultValues ==
    {PyInt(i) : i \in {-1, 0, 1, 2500, 2501}} \cup {PyBool(TRUE), PyBool(FALSE)}
        \cup {PyFloat(998)} \cup {PyStr(str) : str \in RelayStatusStrings}

\* a Particle function returns an int
ReturnValues == {PyInt(i) : i \in {-1, 0, 1, 2, 2400, 2500, 2600, 2700, 2800}}

GetResponses == {JsonWithout, TransportFailure} \cup {JsonWith(v) : v \in ResultValues}

PostResponses == {JsonWithout, TransportFailure} \cup {JsonWith(v) : v \in ReturnValues}

\* the answer to whatever request Interface.__call__ would issue
ResponsesFor(argument) == IF argument = PyNone THEN GetResponses ELSE PostResponses

Names ==
    Range(exposed_variables) \cup DOMAIN exposed_functions \cup { <<"bogus">>, <<>> }

Arguments ==
    {PyNone, PyInt(2400), PyBool(TRUE)}
        \cup {PyStr(a) : a \in UNION {Range(exposed_functions[f]) : f \in DOMAIN exposed_functions}}
        \cup {PyStr(<<"bogus">>), PyStr(<<"2", "4", "5", "0">>)}

\* what the operator may type at a prompt
Selections == {Str(i) : i \in 0..7} \cup { <<"x">>, <<>>, <<"1", "0">> }

---------------------------------------------------------------------------
(* The console, as the script runs it (lines 216-222) *)

(* The device behind the relay holds the pressure alarm threshold.  A threshold *)
(* call that is answered carries the threshold the device then holds; one that  *)
(* is not answered (no `return_value`, transport exception) may or may not have *)
(* reached the device.                                                           *)
DeviceThresholds == {Dec(a) : a \in Range(exposed_functions[<<"threshold">>])}

\* the threshold the device holds when the client starts
FirstThreshold == Dec(exposed_functions[<<"threshold">>][2])

DeviceAfter(requests, r) ==
    IF requests = <<>> \/ requests[1].name # <<"threshold">> THEN {device}
    ELSE IF r.kind = "json" /\ r.has
    THEN IF r.val.type = "int" /\ r.val.n \in DeviceThresholds THEN {r.val.n} ELSE {device}
    ELSE {device, Dec(requests[1].arg.s)}

Operation(fn, name, argument) == [fn |-> fn, name |-> name, arg |-> argument]

Init ==
    /\ pc = "menu"
    /\ op = Operation("run", <<>>, PyNone)
    /\ resp = NoResponse
    /\ calls = <<>>
    /\ sent = <<>>
    /\ parsed = <<>>
    /\ screen = <<>>
    /\ out = NoOutcome
    /\ device = FirstThreshold

\* the state after a pass p of the console that consumed response r
Landed(fn, input, p, r) ==
    /\ pc' = p.pc
    /\ op' = Operation(fn, input, PyNone)
    /\ resp' = IF p.eff.sent = <<>> THEN NoResponse ELSE r
    /\ calls' = p.calls
    /\ sent' = p.eff.sent
    /\ parsed' = p.eff.parsed
    /\ screen' = p.eff.printed
    /\ out' = p.eff.out
    /\ device' \in DeviceAfter(p.eff.sent, r)

MenuChoice ==
    /\ pc = "menu"
    /\ \E choice \in Selections, r \in GetResponses :
           Landed("menu", choice, menu(choice, r), r)

AlarmChoice ==
    /\ pc = "alarm"
    /\ \E alarm \in Selections, r \in PostResponses :
           Landed("_alarm_submenu", alarm, alarm_submenu(alarm, r), r)

ThresholdChoice ==
    /\ pc = "threshold"
    /\ \E new_threshold \in Selections, r \in PostResponses :
           Landed("_threshold_submenu", new_threshold,
                  threshold_submenu(new_threshold, r), r)

\* Ctrl-c while input() waits: KeyboardInterrupt, caught at line 137
Interrupt ==
    /\ pc \in {"menu", "alarm", "threshold"}
    /\ Landed("interrupt", <<>>,
              Pass("done", <<>>,
                   Effect(<<>>, <<>>, <<Line("Done", PyNone, "")>>,
                          Raise("KeyboardInterrupt"))),
              NoResponse)

Next == MenuChoice \/ AlarmChoice \/ ThresholdChoice \/ Interrupt

Spec == Init /\ [][Next]_vars

---------------------------------------------------------------------------
(* The Interface used as a library: any caller, any name, any argument *)

InitClient ==
    /\ pc = "library"
    /\ op = Operation("import", <<>>, PyNone)
    /\ resp = NoResponse
    /\ calls = <<>>
    /\ sent = <<>>
    /\ parsed = <<>>
    /\ screen = <<>>
    /\ out = NoOutcome
    /\ device = FirstThreshold

\* the state after a library call with effect e that consumed response r
Called(o, e, r) ==
    /\ op' = o
    /\ resp' = IF e.sent = <<>> THEN NoResponse ELSE r
    /\ sent' = e.sent
    /\ parsed' = e.parsed
    /\ screen' = e.printed
    /\ out' = e.out
    /\ device' \in DeviceAfter(e.sent, r)
    /\ UNCHANGED <<pc, calls>>

Call ==
    /\ pc = "library"
    /\ \E name \in Names, argument \in Arguments :
         \E r \in ResponsesFor(argument) :
           Called(Operation("__call__", name, argument),
                  Interface_call(name, argument, r), r)

GetVariable ==
    /\ pc = "library"
    /\ \E variable \in Names, r \in GetResponses :
           Called(Operation("get_variable", variable, PyNone),
                  get_variable(variable, r), r)

CallFunction ==
    /\ pc = "library"
    /\ \E function \in Names, argument \in Arguments, r \in PostResponses :
           Called(Operation("call_function", function, argument),
                  call_function(function, argument, r), r)

ParseStatus ==
    /\ pc = "library"
    /\ \E status \in ResultValues :
           Called(Operation("parse_status", <<>>, status),
                  Effect(<<>>, <<status>>, <<>>, parse_status(status)), NoResponse)

NextClient == Call \/ GetVariable \/ CallFunction \/ ParseStatus

SpecClient == InitClient /\ [][NextClient]_vars

---------------------------------------------------------------------------
(* The status decoder on every status string up to a length *)

StatusAlphabet == {",", ":", "power", "pthresh", "0", "1"}

MaxStatusLen == 7

\* the status strings of n atoms
StatusStrings(n) == [1..n -> StatusAlphabet]

ToDecode(str) == op = Operation("parse_status", <<>>, PyStr(str))

InitParse ==
    /\ pc = "library"
    /\ \/ \E n \in 0..MaxStatusLen : \E str \in StatusStrings(n) : ToDecode(str)
       \/ \E str \in RelayStatusStrings : ToDecode(str)
    /\ resp = NoResponse
    /\ calls = <<>>
    /\ sent = <<>>
    /\ parsed = <<>>
    /\ screen = <<>>
    /\ out = NoOutcome
    /\ device = FirstThreshold

Decode ==
    /\ pc = "library"
    /\ op.fn = "parse_status"
    /\ out = NoOutcome
    /\ out' = parse_status(op.arg)
    /\ parsed' = <<op.arg>>
    /\ UNCHANGED <<pc, op, resp, calls, sent, screen, device>>

NextParse == Decode

SpecParse == InitParse /\ [][NextParse]_vars

---------------------------------------------------------------------------
(* Claims about the whitelists and the failure sentinel *)

ReadableNames == { <<"power">>, <<"upspower">>, <<"pressure">>, <<"status">> }

\* the pairs (function, argument) the specification lets through
Whitelisted(function, argument) ==
    /\ argument.type = "str"
    /\ \/ function = <<"alarm">> /\ argument.s \in { <<"arm">>, <<"disarm">> }
       \/ function = <<"led">> /\ argument.s \in { <<"on">>, <<"off">> }
       \/ function = <<"threshold">> /\ IsDigits(argument.s) /\ Len(argument.s) = 4
              /\ Dec(argument.s) \in {2400 + 100 * i : i \in 0..4}
       \/ function = <<"test">> /\ argument.s = <<>>

IsRead == op.fn = "get_variable" \/ (op.fn = "__call__" /\ op.arg = PyNone)

Rejected == out = Raise("AssertionError") /\ sent = <<>> /\ resp = NoResponse

Sentinel == PyInt(-1)

\* C1: a read of a name outside power, upspower, pressure, status fails validation
\* and issues no request
C1_ReadOutsideWhitelistRejected ==
    (IsRead /\ op.name \notin ReadableNames) => Rejected

C1_Witness ==
    /\ op = Operation("__call__", <<"bogus">>, PyNone)
    /\ Rejected

\* C2: call_function with a pair outside the whitelist, or a non-string argument,
\* fails validation and issues no request; a POST goes out only for a whitelisted pair
C2_CallOutsideWhitelistRejected ==
    /\ (op.fn = "call_function" /\ ~Whitelisted(op.name, op.arg)) => Rejected
    /\ \A i \in 1..Len(sent) :
           sent[i].method = "POST" => Whitelisted(sent[i].name, sent[i].arg)

C2_Witness ==
    /\ op = Operation("call_function", <<"threshold">>, PyStr(<<"2", "4", "5", "0">>))
    /\ Rejected

\* C3: through Interface.__call__, a whitelisted read or call whose response lacks
\* the expected field returns the sentinel -1 and does not raise
C3_MissingFieldReturnsSentinel ==
    (/\ op.fn = "__call__"
     /\ \/ op.arg = PyNone /\ op.name \in ReadableNames
        \/ Whitelisted(op.name, op.arg)
     /\ resp = JsonWithout)
        => out = Return(Sentinel)

\* C4: for console selections 0, 1 and 2, when the response lacks `result` no line
\* styled 'ok' is rendered
C4_FailureNotShownAsOk ==
    (/\ op.fn = "menu"
     /\ op.name \in { <<"0">>, <<"1">>, <<"2">> }
     /\ resp = JsonWithout)
        => \A i \in 1..Len(screen) : screen[i].style # "ok"

\* C5: the outcome of a read or call whose response lacks the expected field differs
\* from its outcome for every response that carries the field, -1 included
C5_TimeoutDistinctFromValue ==
    /\ (op.fn = "get_variable" /\ resp = JsonWithout)
           => \A v \in ResultValues : get_variable(op.name, JsonWith(v)).out # out
    /\ (op.fn = "call_function" /\ resp = JsonWithout)
           => \A v \in ReturnValues : call_function(op.name, op.arg, JsonWith(v)).out # out

---------------------------------------------------------------------------
(* Claims about the status decoder *)

\* the m-th smallest member of a set of numbers
Nth(S, m) == CHOOSE x \in S : Cardinality({y \in S : y <= x}) = m

\* the comma-separated tokens of a raw status string
Cuts(raw) == {0, Len(raw) + 1} \cup {i \in 1..Len(raw) : raw[i] = ","}

TokenCount(raw) == Cardinality(Cuts(raw)) - 1

Token(raw, i) == SubSeq(raw, Nth(Cuts(raw), i) + 1, Nth(Cuts(raw), i + 1) - 1)

Colons(tok) == {i \in 1..Len(tok) : tok[i] = ":"}

KeyOf(tok) == SubSeq(tok, 1, Nth(Colons(tok), 1) - 1)

ValueOf(tok) == SubSeq(tok, Nth(Colons(tok), 1) + 1, Len(tok))

\* one ':' separator with a non-empty key and a non-empty value
TwoParts(tok) ==
    /\ Cardinality(Colons(tok)) = 1
    /\ KeyOf(tok) # <<>>
    /\ ValueOf(tok) # <<>>

WellFormed(raw) ==
    \A i \in 1..TokenCount(raw) : TwoParts(Token(raw, i)) /\ IsDigits(ValueOf(Token(raw, i)))

\* the typed value the specification gives a token
Typed(tok) ==
    IF KeyOf(tok) \in { <<"power">>, <<"ups">>, <<"armed">> }
    THEN PyBool(Dec(ValueOf(tok)) # 0)
    ELSE PyFloat(Dec(ValueOf(tok)))

Decoded == op.fn = "parse_status" /\ out # NoOutcome

\* C6: decoding a status string with a token that is not exactly key ':' value,
\* both non-empty, fails as a whole and returns no record
C6_MalformedTokenFailsWhole ==
    (/\ Decoded
     /\ \E i \in 1..TokenCount(op.arg.s) : ~TwoParts(Token(op.arg.s, i)))
        => out.kind = "raise"

\* C7, as stated: a well-formed status string decodes to one field per token, in
\* the order of the tokens, each with the token's typed value
C7_OneFieldPerToken ==
    (Decoded /\ WellFormed(op.arg.s)) =>
        /\ out.kind = "return"
        /\ out.val.type = "OrderedDict"
        /\ Len(out.val.d) = TokenCount(op.arg.s)
        /\ \A i \in 1..TokenCount(op.arg.s) :
               /\ out.val.d[i].k = KeyOf(Token(op.arg.s, i))
               /\ out.val.d[i].v = Typed(Token(op.arg.s, i))

\* the tokens that are the first with their key
Firsts(raw) ==
    {i \in 1..TokenCount(raw) :
        \A j \in 1..(i - 1) : KeyOf(Token(raw, j)) # KeyOf(Token(raw, i))}

\* the last token with the key of token i
LastWithKey(raw, i) ==
    Token(raw, CHOOSE j \in 1..TokenCount(raw) :
                   /\ KeyOf(Token(raw, j)) = KeyOf(Token(raw, i))
                   /\ \A m \in (j + 1)..TokenCount(raw) :
                          KeyOf(Token(raw, m)) # KeyOf(Token(raw, i)))

\* C7, amended: a well-formed status string decodes to one field per distinct key,
\* in the order of the keys' first tokens, each with the typed value of the key's
\* last token (power, ups, armed: 0 is false, nonzero is true; others: the number)
C7_OneFieldPerKey ==
    (Decoded /\ WellFormed(op.arg.s)) =>
        /\ out.kind = "return"
        /\ out.val.type = "OrderedDict"
        /\ Len(out.val.d) = Cardinality(Firsts(op.arg.s))
        /\ \A m \in 1..Len(out.val.d) :
               LET i == Nth(Firsts(op.arg.s), m)
               IN  /\ out.val.d[m].k = KeyOf(Token(op.arg.s, i))
                   /\ out.val.d[m].v = Typed(LastWithKey(op.arg.s, i))

\* a measurement, then a boolean field given twice: true, then false
C7_Witness ==
    /\ Decoded
    /\ op.arg = PyStr(Comma(Tok(<<"pthresh">>, <<"1">>),
                        Comma(Tok(<<"power">>, <<"1">>), Tok(<<"power">>, <<"0">>))))
    /\ out = Return(PyDict(<<[k |-> <<"pthresh">>, v |-> PyFloat(1)],
                             [k |-> <<"power">>, v |-> PyBool(FALSE)]>>))

---------------------------------------------------------------------------
(* Claims about the console *)

\* C8: the console ends only on selection 6 or an interrupt; every other selection,
\* whatever the relay does, leaves the process alive and back at a prompt
C8_EndsOnlyOnExit ==
    /\ pc # "crashed"
    /\ pc = "done" => (op.fn = "interrupt" \/ op = Operation("menu", <<"6">>, PyNone))
    /\ (op.fn = "menu" /\ op.name \notin { <<"4">>, <<"5">>, <<"6">> }) => pc = "menu"
    /\ op.fn \in {"_alarm_submenu", "_threshold_submenu"} => pc = "menu"

\* the pass the console makes for input o.name at the prompt of o.fn, answered by r
PassOf(o, r) ==
    CASE o.fn = "menu" -> menu(o.name, r)
      [] o.fn = "_alarm_submenu" -> alarm_submenu(o.name, r)
      [] o.fn = "_threshold_submenu" -> threshold_submenu(o.name, r)

\* C9: when the transport raises, the console ends the pass as it does for a
\* response without the expected field: same lines, same prompt, process alive
C9_TransportFailureLikeMissingField ==
    resp = TransportFailure =>
        /\ pc # "crashed"
        /\ pc = PassOf(op, JsonWithout).pc
        /\ screen = PassOf(op, JsonWithout).eff.printed

AlarmArgument == IF op.name = <<"0">> THEN PyStr(<<"disarm">>) ELSE PyStr(<<"arm">>)

\* what Interface.__call__ hands the submenu for the response consumed
Returned == IF resp.has THEN resp.val ELSE Sentinel

AlarmSuccess ==
    /\ Returned.type = "int"
    /\ Returned.n = IF op.name = <<"0">> THEN 0 ELSE 1

\* C10: alarm choice 0 calls (alarm, disarm) and choice 1 calls (alarm, arm); the
\* outcome is shown as success exactly when the returned integer is 0 for disarm or
\* 1 for arm, as a failure to retry for every other returned value, -1 included,
\* and the submenu returns to the menu without raising
C10_AlarmClassification ==
    (/\ op.fn = "_alarm_submenu"
     /\ op.name \in { <<"0">>, <<"1">> }
     /\ resp.kind = "json")
        => /\ calls = <<Invocation(<<"alarm">>, AlarmArgument)>>
           /\ sent = <<Request("POST", <<"alarm">>, AlarmArgument)>>
           /\ out.kind # "raise"
           /\ pc = "menu"
           /\ screen # <<>>
           /\ screen[Len(screen)] =
                  IF AlarmSuccess
                  THEN Line(IF op.name = <<"0">> THEN "Alarm disabled" ELSE "Alarm enabled.",
                            PyNone, "ok")
                  ELSE Line("Try again (wrong return value).", PyNone, "fail")

C10_Witness ==
    /\ op = Operation("_alarm_submenu", <<"1">>, PyNone)
    /\ resp = JsonWith(PyInt(1))
    /\ sent = <<Request("POST", <<"alarm">>, PyStr(<<"arm">>))>>
    /\ screen = <<Line("Alarm enabled.", PyNone, "ok")>>
    /\ pc = "menu"

\* the threshold string the specification lists at ordinal k, and its numeric value
ThresholdString(k) ==
    CASE k = <<"0">> -> <<"2", "4", "0", "0">>
      [] k = <<"1">> -> <<"2", "5", "0", "0">>
      [] k = <<"2">> -> <<"2", "6", "0", "0">>
      [] k = <<"3">> -> <<"2", "7", "0", "0">>
      [] k = <<"4">> -> <<"2", "8", "0", "0">>

ThresholdNumber(k) ==
    CASE k = <<"0">> -> 2400
      [] k = <<"1">> -> 2500
      [] k = <<"2">> -> 2600
      [] k = <<"3">> -> 2700
      [] k = <<"4">> -> 2800

ThresholdOrdinals == { <<"0">>, <<"1">>, <<"2">>, <<"3">>, <<"4">> }

\* C11: threshold choice k calls exactly (threshold, options[k]); the outcome is shown
\* as success only when the returned integer equals the number chosen, as 'not
\* changed, try again' for every other returned value, -1 included, and the submenu
\* returns to the menu without raising
C11_ThresholdClassification ==
    (/\ op.fn = "_threshold_submenu"
     /\ op.name \in ThresholdOrdinals
     /\ resp.kind = "json")
        => /\ calls = <<Invocation(<<"threshold">>, PyStr(ThresholdString(op.name)))>>
           /\ sent = <<Request("POST", <<"threshold">>, PyStr(ThresholdString(op.name)))>>
           /\ out.kind # "raise"
           /\ pc = "menu"
           /\ screen # <<>>
           /\ screen[Len(screen)] =
                  IF Returned.type = "int" /\ Returned.n = ThresholdNumber(op.name)
                  THEN Line("Pressure alarm threshold set to %d mbar.", Returned, "ok")
                  ELSE Line("Pressure alarm threshold set to %d mbar. Threshold NOT changed, please try again.",
                            Returned, "warn")

C11_Witness ==
    /\ op = Operation("_threshold_submenu", <<"2">>, PyNone)
    /\ resp = JsonWith(PyInt(2600))
    /\ sent = <<Request("POST", <<"threshold">>, PyStr(<<"2", "6", "0", "0">>))>>
    /\ screen = <<Line("Pressure alarm threshold set to %d mbar.", PyInt(2600), "ok")>>
    /\ pc = "menu"

\* the prompt at which the last selection was typed
ActiveMenu ==
    CASE op.fn = "menu" -> "menu"
      [] op.fn = "_alarm_submenu" -> "alarm"
      [] op.fn = "_threshold_submenu" -> "threshold"
      [] OTHER -> "none"

\* the last selection was outside the ordinals of the menu it was typed at
InvalidSelection ==
    \/ op.fn = "menu" /\ op.name \notin
           { <<"0">>, <<"1">>, <<"2">>, <<"3">>, <<"4">>, <<"5">>, <<"6">> }
    \/ op.fn = "_alarm_submenu" /\ op.name \notin { <<"0">>, <<"1">> }
    \/ op.fn = "_threshold_submenu" /\ op.name \notin ThresholdOrdinals

InvalidChoiceReported ==
    /\ Len(screen) = 1
    /\ screen[1].style = "fail"
    /\ screen[1].msg \in {"Wrong option, try again.", "Wrong option: "}
    /\ calls = <<>>
    /\ sent = <<>>

\* C12, as stated: an invalid selection gives an invalid-choice message, no client
\* operation, and the menu that was active is the one displayed again
C12_SameMenuRedisplayed ==
    InvalidSelection => (InvalidChoiceReported /\ pc = ActiveMenu)

\* C12, amended: an invalid selection, at the main menu or in a submenu, gives an
\* invalid-choice message and no client operation, and the main menu is the one
\* displayed next
C12_MainMenuRedisplayed ==
    InvalidSelection => (InvalidChoiceReported /\ pc = "menu")

C12_Witness ==
    /\ op = Operation("_threshold_submenu", <<"5">>, PyNone)
    /\ screen = <<Line("Wrong option, try again.", PyNone, "fail")>>
    /\ sent = <<>>
    /\ pc = "menu"

StatusRead ==
    \/ op = Operation("__call__", <<"status">>, PyNone)
    \/ op = Operation("menu", <<"3">>, PyNone)

\* C13: in a status read the decoder is handed only a `result` the response carried;
\* when the response lacks `result` the decoder is not called
C13_DecoderNeverGetsSentinel ==
    StatusRead =>
        /\ parsed # <<>> => (resp.kind = "json" /\ resp.has /\ parsed = <<resp.val>>)
        /\ resp = JsonWithout => parsed = <<>>

\* the name and argument of the last read or call pass the whitelist
ValidationPasses ==
    \/ IsRead /\ op.name \in ReadableNames
    \/ /\ op.fn = "call_function" \/ (op.fn = "__call__" /\ op.arg # PyNone)
       /\ Whitelisted(op.name, op.arg)

\* C14: a read or a call issues at most one request whatever the response, exactly
\* one when validation passes, and hands the failure outcome to its caller after
\* that one request
C14_NoRetry ==
    op.fn \in {"get_variable", "call_function", "__call__"} =>
        /\ Len(sent) <= 1
        /\ ValidationPasses => Len(sent) = 1
        /\ ~ValidationPasses => sent = <<>>
        /\ (op.fn \in {"get_variable", "call_function"} /\ resp = JsonWithout)
               => (Len(sent) = 1 /\ out = Return(Sentinel))

C14_Witness ==
    /\ op = Operation("get_variable", <<"pressure">>, PyNone)
    /\ resp = JsonWithout
    /\ sent = <<Request("GET", <<"pressure">>, PyNone)>>
    /\ out = Return(Sentinel)

\* a pass of the loop of lines 134-136 is over: Menu.menu returned or raised
PassOver == op.fn # "run" /\ pc \notin {"alarm", "threshold"}

\* the selections of the pass name a client operation
Operates ==
    \/ op.fn = "menu" /\ op.name \in { <<"0">>, <<"1">>, <<"2">>, <<"3">> }
    \/ op.fn = "_alarm_submenu" /\ op.name \in { <<"0">>, <<"1">> }
    \/ op.fn = "_threshold_submenu" /\ op.name \in ThresholdOrdinals

\* C15, as stated: every pass reads one selection and invokes exactly one client
\* operation, whatever the operator enters
C15_OneSelectionOneOperation ==
    PassOver => (op.fn = "menu" /\ Len(calls) = 1)

\* C15, amended: every pass invokes at most one client operation: exactly one for
\* selections 0-3 and for a valid choice in a submenu, none otherwise; the passes
\* through selections 4 and 5 read a second selection, at the submenu's prompt
C15_AtMostOneOperation ==
    /\ PassOver =>
           /\ Len(calls) = IF Operates THEN 1 ELSE 0
           /\ Len(sent) = Len(calls)
    /\ pc \in {"alarm", "threshold"} =>
           /\ op.fn = "menu" /\ op.name \in { <<"4">>, <<"5">> }
           /\ calls = <<>>
    /\ op.fn \in {"_alarm_submenu", "_threshold_submenu"} => PassOver

C15_Witness ==
    /\ op = Operation("_alarm_submenu", <<"0">>, PyNone)
    /\ calls = <<Invocation(<<"alarm">>, PyStr(<<"disarm">>))>>
    /\ pc = "menu"

C15_WitnessNone ==
    /\ op = Operation("menu", <<"7">>, PyNone)
    /\ calls = <<>>
    /\ pc = "menu"

\* C17: Interface.__call__ reads (GET, variable whitelist) when no argument is given
\* and calls (POST, function whitelist) when any argument is given, the empty string
\* included; a function name without argument and a variable name with an argument
\* are rejected with no request
C17_DispatchOnArgument ==
    op.fn = "__call__" =>
        /\ op.arg = PyNone =>
               IF op.name \in ReadableNames
               THEN sent = <<Request("GET", op.name, PyNone)>>
               ELSE Rejected
        /\ op.arg # PyNone =>
               IF Whitelisted(op.name, op.arg)
               THEN sent = <<Request("POST", op.name, op.arg)>>
               ELSE Rejected

C17_Witness ==
    /\ op = Operation("__call__", <<"test">>, PyStr(<<>>))
    /\ sent = <<Request("POST", <<"test">>, PyStr(<<>>))>>

C17_WitnessVariableWithArgument ==
    /\ op = Operation("__call__", <<"power">>, PyStr(<<"on">>))
    /\ Rejected

C17_WitnessFunctionWithoutArgument ==
    /\ op = Operation("__call__", <<"alarm">>, PyNone)
    /\ Rejected

PressureLines == {"Pressure is %.2f mbar.", "Pressure threshold is %.0f mbar."}

\* C16: a pressure or pthresh line is styled 'ok' when its value is below 2501 and
\* 'warn' otherwise, whatever alarm threshold the device holds after the threshold
\* calls made so far
C16_SeverityFromValueOnly ==
    \A i \in 1..Len(screen) :
        screen[i].msg \in PressureLines =>
            screen[i].style = IF screen[i].v.n < 2501 THEN "ok" ELSE "warn"

\* the device was set to 2800 and a pressure of 2501, below that threshold, warns
C16_Witness ==
    /\ device = 2800
    /\ op = Operation("menu", <<"2">>, PyNone)
    /\ resp = JsonWith(PyInt(2501))
    /\ screen[Len(screen)] = Line("Pressure is %.2f mbar.", PyInt(2501), "warn")

\* the device was set to 2400 and a pressure of 2500, above that threshold, is 'ok'
C16_WitnessOk ==
    /\ device = 2400
    /\ op = Operation("menu", <<"2">>, PyNone)
    /\ resp = JsonWith(PyInt(2500))
    /\ screen[Len(screen)] = Line("Pressure is %.2f mbar.", PyInt(2500), "ok")

====
